---- MODULE Spec2Model ----
(***************************************************************************)
(* CompressionBuffer (compression_buffer.py) shared by the notification    *)
(* listener thread (producer) and the job submission thread (consumer) of  *)
(* main.py.                                                                *)
(*                                                                         *)
(* Spec     : the buffer with one producer thread calling append and one   *)
(*            consumer thread calling wait_for_compression_jobs and        *)
(*            get_paths_to_compress in any order.                          *)
(* SpecLoop : the same buffer driven by submit_compression_jobs_thread_    *)
(*            entry of main.py, with the listener thread and the polling   *)
(*            loop of main: the program from main.py 252 on, given a       *)
(*            constructed buffer.                                          *)
(*                                                                         *)
(* SpecFair and SpecLoopFair add the scheduling of the consumer thread.     *)
(* SpecMain : main of main.py up to the construction of the buffer.        *)
(* SpecSource : the notification generator of seaweedfs_grpc_client.py     *)
(*            read by the listener thread.                                 *)
(*                                                                         *)
(* The code holding the lock inside one call runs as one step; the lock is *)
(* a variable because get_paths_to_compress keeps it across calls.         *)
(***************************************************************************)
EXTENDS Integers, Sequences, FiniteSets, TLC

VARIABLES
    named_buffers,      \* Dict[str, SingleBuffer], in insertion order
    ready_buffers,      \* List[str]
    lock,               \* "free" or the thread holding it across steps
    now,                \* datetime.now()
    prod_pc,            \* listener thread: "next" | "acquire" | "stopped"
    prod_arg,           \* arguments of the append call in progress
    n_events,           \* notifications read from the generator so far
    cons_pc,            \* consumer position inside the buffer's methods
    paths_to_compress,  \* value returned by get_paths_to_compress (<<>>: none yet)
    loop_pc,            \* position of submit_compression_jobs_thread_entry
    sleep_time,         \* its local sleep_time
    slept,              \* history: time.sleep calls since the last wait returned
    empties,            \* history: empty results handled since the last wait returned
    main_pc,            \* position of main
    exit_status,        \* value main returned (read when main_pc = "returned")
    argv,               \* the options main parsed
    source_log,         \* history: what the generator did with each response
    input_type,         \* "s3" | "fs"
    exit_event,         \* threading.Event shared by both threads
    jobs,               \* documents inserted in jobs_collection
    appended,           \* history: appends that took effect
    returned,           \* history: non-empty results of get_paths_to_compress
    cycle               \* history: scans that filled ready_buffers so far

vars == <<named_buffers, ready_buffers, lock, now, prod_pc, prod_arg, n_events,
          cons_pc, paths_to_compress, loop_pc, sleep_time, slept, empties,
          main_pc, exit_status, argv, source_log,
          input_type, exit_event, jobs, appended, returned, cycle>>

buffer_vars == <<named_buffers, ready_buffers, lock>>
prod_vars == <<prod_pc, prod_arg, n_events>>
loop_vars == <<loop_pc, sleep_time, slept, empties>>
main_vars == <<main_pc, exit_status, argv>>
sink_vars == <<input_type, jobs>>
hist_vars == <<appended, returned, cycle>>

----------------------------------------------------------------------------
(* Bounds and configuration *)

\* notifications the generator yields; last value of the clock
MaxAppends == 3
MaxTime == 2

\* constructor arguments max_buffer_size (bytes) and min_refresh_period (clock
\* units), and max_polling_period of the submission thread, at small values
max_buffer_size == 2
min_refresh_period == 1
max_polling_period == 4

None == -1

\* the options of main.py 176-194 at the values the model runs with
default_argv ==
    [prefix_absolute |-> TRUE, mnt_absolute |-> TRUE,
     max_buffer_size |-> max_buffer_size,
     min_refresh_frequency |-> min_refresh_period]

group_by_paths_under_prefix == <<"/", "logs">>

\* PurePath values, as their parts
Paths == { <<"/", "logs", "a", "x">>,
           <<"/", "logs", "a", "y">>,
           <<"/", "other", "x">>,
           <<"/", "logs">> }

Sizes == {0, 2}

min(a, b) == IF a < b THEN a ELSE b

----------------------------------------------------------------------------
(* SingleBuffer *)

SingleBuffer(name) ==
    [name |-> name, path_list |-> <<>>, total_buffer_size |-> 0,
     first_path_timestamp |-> None]

clear_keeps_paths(buf) ==
    [buf EXCEPT !.total_buffer_size = 0, !.first_path_timestamp = None]

clear(buf) ==
    [buf EXCEPT !.path_list = <<>>, !.total_buffer_size = 0,
                !.first_path_timestamp = None]

----------------------------------------------------------------------------
(* CompressionBuffer: pure parts *)

BufferNames(bufs) == {bufs[i].name : i \in 1..Len(bufs)}

IndexOf(bufs, name) == CHOOSE i \in 1..Len(bufs) : bufs[i].name = name

\* PurePath.relative_to: the parts after the prefix, ValueError otherwise
relative_to(path, prefix) ==
    IF Len(path) >= Len(prefix) /\ SubSeq(path, 1, Len(prefix)) = prefix
    THEN [raised |-> "", parts |-> SubSeq(path, Len(prefix) + 1, Len(path))]
    ELSE [raised |-> "ValueError", parts |-> <<>>]

\* append, lines 50-55: the except clause catches KeyError and ValueError only
index_name(s3_path) ==
    LET rel == relative_to(s3_path, group_by_paths_under_prefix) IN
    IF rel.raised = "ValueError" THEN [raised |-> "", name |-> ""]
    ELSE IF Len(rel.parts) = 0 THEN [raised |-> "IndexError", name |-> ""]
    ELSE [raised |-> "", name |-> rel.parts[1]]

\* append, lines 58-63
target_buffers(bufs, name) ==
    IF name \in BufferNames(bufs) THEN bufs ELSE Append(bufs, SingleBuffer(name))

add_path_resets_timestamp(buf, s3_path, object_size, process_timestamp) ==
    [buf EXCEPT !.total_buffer_size = @ + object_size,
                !.first_path_timestamp = process_timestamp,
                !.path_list = Append(@, s3_path)]

\* append, lines 66-69
add_path(buf, s3_path, object_size, process_timestamp) ==
    [buf EXCEPT !.total_buffer_size = @ + object_size,
                !.first_path_timestamp = IF @ = None THEN process_timestamp ELSE @,
                !.path_list = Append(@, s3_path)]

no_buffers(bufs) == Len(bufs) = 0

\* wait_for_compression_jobs, lines 87-91
all_buffers_empty(bufs) ==
    \A i \in 1..Len(bufs) : bufs[i].first_path_timestamp = None

buffer_ready_at_threshold(buf, t) ==
    IF buf.first_path_timestamp = None THEN FALSE
    ELSE IF buf.total_buffer_size >= max_buffer_size THEN TRUE
    ELSE t - buf.first_path_timestamp > min_refresh_period

\* _get_buffers_ready_for_compression, lines 99-120, for one buffer
buffer_ready(buf, t) ==
    IF buf.first_path_timestamp = None THEN FALSE
    ELSE IF buf.total_buffer_size > max_buffer_size THEN TRUE
    ELSE t - buf.first_path_timestamp > min_refresh_period

RECURSIVE ready_without_continue(_, _)
\* the scan with the size trigger falling through to the age trigger
ready_without_continue(bufs, t) ==
    IF bufs = <<>> THEN <<>>
    ELSE LET buf == Head(bufs)
             filled == buf.first_path_timestamp # None
             by_size == filled /\ buf.total_buffer_size > max_buffer_size
             by_age == filled /\ t - buf.first_path_timestamp > min_refresh_period
         IN (IF by_size THEN <<buf.name>> ELSE <<>>)
              \o (IF by_age THEN <<buf.name>> ELSE <<>>)
              \o ready_without_continue(Tail(bufs), t)

\* _get_buffers_ready_for_compression, lines 97-122
get_buffers_ready_for_compression(bufs, t) ==
    LET sel == SelectSeq(bufs, LAMBDA b : buffer_ready(b, t)) IN
    [i \in 1..Len(sel) |-> sel[i].name]

release_after_every_pop(ready) == TRUE

release_after_no_pop(ready) == FALSE

\* get_paths_to_compress, lines 147-148
release_after_pop(ready) == Len(ready) = 0

lock_kept_after_empty_scan == "consumer"

\* get_paths_to_compress, lines 134-136
lock_after_empty_scan == "free"

\* the list handed out is the group's own list, emptied by clear()
path_list_after_clear(buf) == <<>>

path_list_without_last(buf) ==
    IF buf.path_list = <<>> THEN <<>>
    ELSE SubSeq(buf.path_list, 1, Len(buf.path_list) - 1)

\* get_paths_to_compress, line 142
path_list_to_return(buf) == buf.path_list

----------------------------------------------------------------------------
Init ==
    /\ named_buffers = <<>>
    /\ ready_buffers = <<>>
    /\ lock = "free"
    /\ now = 0
    /\ prod_pc = "next"
    /\ prod_arg = [s3_path |-> <<>>, object_size |-> 0, process_timestamp |-> 0]
    /\ n_events = 0
    /\ cons_pc = "idle"
    /\ paths_to_compress = <<>>
    /\ loop_pc = "wait"
    /\ sleep_time = 1
    /\ slept = <<>>
    /\ empties = 0
    /\ main_pc = "supervise"
    /\ exit_status = 0
    /\ argv = default_argv
    /\ source_log = <<>>
    /\ input_type = "s3"
    /\ exit_event = FALSE
    /\ jobs = <<>>
    /\ appended = <<>>
    /\ returned = <<>>
    /\ cycle = 0

----------------------------------------------------------------------------
(* Time *)

Tick ==
    /\ now < MaxTime
    /\ now' = now + 1
    /\ UNCHANGED <<buffer_vars, prod_vars, cons_pc, paths_to_compress,
                   loop_vars, sink_vars, main_vars, source_log, exit_event, hist_vars>>

----------------------------------------------------------------------------
(* Listener thread: filer_ingestion_listener_thread_entry and append *)

\* a thread entry without its finally clause
exit_left_unset(e) == e

\* main.py 133-134 and 158-159: finally: exit.set()
exit_set(e) == TRUE

\* append that returns without notifying the condition
append_without_notify(pc) == pc

\* Condition.notify_all: every thread in the wait set is woken
notify_all(pc) == IF pc = "cv_wait" THEN "cv_woken" ELSE pc

\* the lock can be taken
lock_acquirable == lock = "free"

\* compression_buffer.py 47-72 under the lock, for the call's arguments; an
\* exception leaves the with block (releasing the lock) and reaches
\* main.py 156-159
AppendUnderLock(arg) ==
    LET idx == index_name(arg.s3_path) IN
    IF idx.raised # ""
    THEN /\ prod_pc' = "stopped"
         /\ exit_event' = exit_set(exit_event)
         /\ UNCHANGED <<named_buffers, cons_pc, appended>>
    ELSE LET bufs == target_buffers(named_buffers, idx.name)
             i == IndexOf(bufs, idx.name)
         IN /\ named_buffers' =
                  [bufs EXCEPT ![i] = add_path(@, arg.s3_path, arg.object_size,
                                               arg.process_timestamp)]
            /\ cons_pc' = notify_all(cons_pc)
            /\ prod_pc' = "next"
            /\ appended' = Append(appended,
                  [path |-> arg.s3_path, name |-> idx.name,
                   size |-> arg.object_size, ts |-> arg.process_timestamp,
                   cycle |-> cycle])
            /\ UNCHANGED exit_event

\* main.py 151-155: the next notification is read and append is called with
\* datetime.now(); with the lock free the call runs to its end, otherwise it
\* waits for the lock
Notify ==
    /\ prod_pc = "next"
    /\ n_events < MaxAppends
    /\ n_events' = n_events + 1
    /\ \E s3_path \in Paths, object_size \in Sizes :
          LET arg == [s3_path |-> s3_path, object_size |-> object_size,
                      process_timestamp |-> now]
          IN /\ prod_arg' = arg
             /\ IF lock_acquirable
                THEN AppendUnderLock(arg)
                ELSE /\ prod_pc' = "acquire"
                     /\ UNCHANGED <<named_buffers, cons_pc, appended, exit_event>>
    /\ UNCHANGED <<ready_buffers, lock, now, paths_to_compress, loop_vars,
                   sink_vars, main_vars, source_log, returned, cycle>>

\* the append call that waited for the lock gets it
AppendBody ==
    /\ prod_pc = "acquire"
    /\ lock_acquirable
    /\ AppendUnderLock(prod_arg)
    /\ UNCHANGED <<ready_buffers, lock, now, prod_arg, n_events,
                   paths_to_compress, loop_vars, sink_vars, main_vars, source_log, returned, cycle>>

----------------------------------------------------------------------------
(* Consumer thread inside the buffer's methods.  ready_buffers is written   *)
(* by the consumer thread only, so its unlocked reads (lines 80, 131) run   *)
(* in one step with what follows them.                                      *)

\* the consumer is in neither method: "waited" after a return of
\* wait_for_compression_jobs, "idle" otherwise
OutsideCalls == {"idle", "waited"}

\* wait_for_compression_jobs, lines 84-94: one pass of the loop under the lock
WaitPass ==
    /\ lock_acquirable
    /\ cons_pc' = IF all_buffers_empty(named_buffers) THEN "cv_wait" ELSE "waited"

\* wait_for_compression_jobs, lines 80-94, from the call to the return or to
\* the first Condition.wait
WaitCall ==
    /\ cons_pc \in OutsideCalls
    /\ IF Len(ready_buffers) > 0 THEN cons_pc' = "waited" ELSE WaitPass
    /\ UNCHANGED <<buffer_vars, now, prod_vars, paths_to_compress, sink_vars, main_vars, source_log,
                   exit_event, hist_vars>>

\* Condition.wait returns (the lock is taken again) and the loop runs again
WaitWake ==
    /\ cons_pc = "cv_woken"
    /\ WaitPass
    /\ UNCHANGED <<buffer_vars, now, prod_vars, paths_to_compress, loop_vars,
                   sink_vars, main_vars, source_log, exit_event, hist_vars>>

\* Condition.wait may return without a notification
SpuriousWake ==
    /\ cons_pc = "cv_wait"
    /\ cons_pc' = "cv_woken"
    /\ UNCHANGED <<buffer_vars, now, prod_vars, paths_to_compress, loop_vars,
                   sink_vars, main_vars, source_log, exit_event, hist_vars>>

\* get_paths_to_compress, lines 132-136
Scan ==
    /\ lock_acquirable
    /\ LET ready == get_buffers_ready_for_compression(named_buffers, now) IN
       /\ ready_buffers' = ready
       /\ IF 0 = Len(ready)
          THEN /\ lock' = lock_after_empty_scan
               /\ paths_to_compress' = <<<<>>, "">>
               /\ cons_pc' = "idle"
               /\ UNCHANGED cycle
          ELSE /\ lock' = "consumer"
               /\ cons_pc' = "drain_pop"
               /\ cycle' = cycle + 1
               /\ UNCHANGED paths_to_compress
    /\ UNCHANGED <<named_buffers, returned>>

\* get_paths_to_compress, lines 138-150
Pop ==
    /\ LET buffer_name == Head(ready_buffers)
           i == IndexOf(named_buffers, buffer_name)
           target_buffer == named_buffers[i]
           result == path_list_to_return(target_buffer)
       IN /\ ready_buffers' = Tail(ready_buffers)
          /\ named_buffers' = [named_buffers EXCEPT ![i] = clear(target_buffer)]
          /\ lock' = IF release_after_pop(Tail(ready_buffers)) THEN "free" ELSE lock
          /\ paths_to_compress' = <<result, buffer_name>>
          /\ returned' = Append(returned,
                [paths |-> result, name |-> buffer_name, cycle |-> cycle])
    /\ cons_pc' = "idle"
    /\ UNCHANGED cycle

\* get_paths_to_compress is called: line 131, then the scan, or the pop of a
\* key left by the scan of an earlier call
DrainCall ==
    /\ cons_pc \in OutsideCalls
    /\ IF 0 = Len(ready_buffers) THEN Scan ELSE Pop
    /\ UNCHANGED <<now, prod_vars, sink_vars, main_vars, source_log, exit_event, appended>>

\* get_paths_to_compress, from line 138 on, in the call whose scan filled
\* ready_buffers
DrainPop ==
    /\ cons_pc = "drain_pop"
    /\ Pop
    /\ UNCHANGED <<now, prod_vars, loop_vars, sink_vars, main_vars, source_log, exit_event, appended>>

----------------------------------------------------------------------------
(* Spec: the consumer thread calls the two methods in any order *)

CallWait ==
    /\ WaitCall
    /\ UNCHANGED loop_vars

CallDrain ==
    /\ DrainCall
    /\ UNCHANGED loop_vars

Next ==
    \/ Tick
    \/ Notify
    \/ AppendBody
    \/ CallWait
    \/ WaitWake
    \/ SpuriousWake
    \/ CallDrain
    \/ DrainPop

Spec == Init /\ [][Next]_vars

\* the consumer thread is scheduled: a Condition.wait that was woken returns
\* once the lock can be taken (compression_buffer.py 94)
SpecFair == Spec /\ WF_vars(WaitWake)

----------------------------------------------------------------------------
(* SpecLoop: submit_compression_jobs_thread_entry drives the consumer.      *)
(* loop_pc is what the thread does next once the call in progress returns.  *)

\* the items `for full_s3_path in paths_to_compress` visits are the elements
\* of the returned Tuple[List[PurePath], str] itself
item_type(i) == IF i = 1 THEN "list" ELSE "str"

\* main.py 89-127: `.parts` (s3) and `.relative_to` (fs) exist on PurePath
\* items only
new_job_entry(items, type) ==
    IF \E i \in 1..Len(items) : item_type(i) # "PurePath"
    THEN [raised |-> "AttributeError", entry |-> <<>>]
    ELSE [raised |-> "",
          entry |-> [input_type |-> type, status |-> "pending",
                     paths |-> [i \in 1..Len(items) |-> items[i]]]]

\* main.py 80
LoopWait ==
    /\ loop_pc = "wait"
    /\ WaitCall
    /\ loop_pc' = "waited"
    /\ UNCHANGED <<sleep_time, slept, empties>>

\* main.py 81-83
LoopDrain ==
    /\ loop_pc \in {"waited", "drain"}
    /\ DrainCall
    /\ sleep_time' = IF loop_pc = "waited" THEN 1 ELSE sleep_time
    /\ slept' = IF loop_pc = "waited" THEN <<>> ELSE slept
    /\ empties' = IF loop_pc = "waited" THEN 0 ELSE empties
    /\ loop_pc' = "handle"

\* main.py 84-134: the length tested is that of the returned tuple
LoopHandle ==
    /\ loop_pc = "handle"
    /\ cons_pc = "idle"
    /\ empties' = IF paths_to_compress[1] = <<>> THEN empties + 1 ELSE empties
    /\ IF 0 = Len(paths_to_compress)
       THEN /\ slept' = Append(slept, sleep_time)
            /\ sleep_time' = min(sleep_time * 2, max_polling_period)
            /\ loop_pc' = "drain"
            /\ UNCHANGED <<jobs, exit_event>>
       ELSE LET built == new_job_entry(paths_to_compress, input_type) IN
            IF built.raised # ""
            THEN /\ loop_pc' = "stopped"
                 /\ exit_event' = exit_set(exit_event)
                 /\ UNCHANGED <<jobs, sleep_time, slept>>
            ELSE /\ jobs' = Append(jobs, built.entry)
                 /\ loop_pc' = "wait"
                 /\ UNCHANGED <<exit_event, sleep_time, slept>>
    /\ UNCHANGED <<buffer_vars, now, prod_vars, cons_pc, paths_to_compress,
                   input_type, main_vars, source_log, hist_vars>>

\* main.py 151, 156-159: the notification generator ends or raises; the for
\* loop is left and the finally clause runs
ListenerStops ==
    /\ prod_pc' = "stopped"
    /\ exit_event' = exit_set(exit_event)

SourceStops ==
    /\ prod_pc = "next"
    /\ ListenerStops
    /\ UNCHANGED <<buffer_vars, now, prod_arg, n_events, cons_pc,
                   paths_to_compress, loop_vars, sink_vars, main_vars,
                   source_log, hist_vars>>

\* the value main returns once its polling loop has seen the event set
\* (main.py 295)
status_after_shutdown == 0

\* main.py 292-295: the polling loop of main sees the event set, the clients
\* are closed and main returns
MainObserve ==
    /\ main_pc = "supervise"
    /\ exit_event
    /\ main_pc' = "returned"
    /\ exit_status' = status_after_shutdown
    /\ UNCHANGED <<buffer_vars, now, prod_vars, cons_pc, paths_to_compress,
                   loop_vars, sink_vars, argv, source_log, exit_event,
                   hist_vars>>

InitLoop ==
    /\ named_buffers = <<>>
    /\ ready_buffers = <<>>
    /\ lock = "free"
    /\ now = 0
    /\ prod_pc = "next"
    /\ prod_arg = [s3_path |-> <<>>, object_size |-> 0, process_timestamp |-> 0]
    /\ n_events = 0
    /\ cons_pc = "idle"
    /\ paths_to_compress = <<>>
    /\ loop_pc = "wait"
    /\ sleep_time = 1
    /\ slept = <<>>
    /\ empties = 0
    /\ main_pc = "supervise"
    /\ exit_status = 0
    /\ argv = default_argv
    /\ source_log = <<>>
    /\ input_type \in {"s3", "fs"}
    /\ exit_event = FALSE
    /\ jobs = <<>>
    /\ appended = <<>>
    /\ returned = <<>>
    /\ cycle = 0

\* the threads may still take steps between the return of main and the end
\* of the process
NextLoop ==
    \/ Tick
    \/ Notify
    \/ AppendBody
    \/ LoopWait
    \/ WaitWake
    \/ SpuriousWake
    \/ LoopDrain
    \/ DrainPop
    \/ LoopHandle
    \/ SourceStops
    \/ MainObserve

SpecLoop == InitLoop /\ [][NextLoop]_vars

\* the clock keeps advancing and the submission thread is scheduled whenever
\* it can take its next step
SpecLoopFair ==
    /\ SpecLoop
    /\ WF_vars(Tick)
    /\ WF_vars(LoopWait) /\ WF_vars(WaitWake)
    /\ WF_vars(LoopDrain) /\ WF_vars(DrainPop)
    /\ WF_vars(LoopHandle)

----------------------------------------------------------------------------
(* SpecMain: main of main.py from the parsed options to the construction of *)
(* the buffer.  The threads main starts after it are those of SpecLoop.     *)

\* the parameters of CompressionBuffer.__init__, none with a default
\* (compression_buffer.py 21-27)
CompressionBuffer_params ==
    {"logger", "max_buffer_size", "min_refresh_period",
     "group_by_paths_under_prefix"}

\* the keyword arguments of the call at main.py 243-247
CompressionBuffer_call_args == {"logger", "max_buffer_size", "min_refresh_period"}

\* a call by keyword: TypeError unless every required parameter is given and
\* every keyword is a parameter
call_by_keyword(params, args) == IF args = params THEN "" ELSE "TypeError"

\* option values main may be started with
ArgvSet ==
    [prefix_absolute : BOOLEAN, mnt_absolute : BOOLEAN,
     max_buffer_size : {0, max_buffer_size, 16},
     min_refresh_frequency : {0, min_refresh_period, 5}]

\* main.py 196-226: parser.error ends the process with status 2
MainParse ==
    /\ main_pc = "parse"
    /\ IF ~argv.prefix_absolute \/ (input_type = "fs" /\ ~argv.mnt_absolute)
       THEN main_pc' = "returned" /\ exit_status' = 2
       ELSE main_pc' = "clients" /\ UNCHANGED exit_status
    /\ UNCHANGED <<buffer_vars, now, prod_vars, cons_pc, paths_to_compress,
                   loop_vars, sink_vars, argv, source_log, exit_event,
                   hist_vars>>

\* main.py 231-239: the two clients are created; an exception of theirs is
\* not caught by main and ends the process with status 1
MainClients ==
    /\ main_pc = "clients"
    /\ \E initiated \in BOOLEAN :
          IF initiated
          THEN main_pc' = "construct" /\ UNCHANGED exit_status
          ELSE main_pc' = "returned" /\ exit_status' = 1
    /\ UNCHANGED <<buffer_vars, now, prod_vars, cons_pc, paths_to_compress,
                   loop_vars, sink_vars, argv, source_log, exit_event,
                   hist_vars>>

\* main.py 241-250: the buffer is constructed; an exception is logged and
\* main returns -1
MainConstruct ==
    /\ main_pc = "construct"
    /\ IF call_by_keyword(CompressionBuffer_params, CompressionBuffer_call_args) = ""
       THEN main_pc' = "supervise" /\ UNCHANGED exit_status
       ELSE main_pc' = "returned" /\ exit_status' = -1
    /\ UNCHANGED <<buffer_vars, now, prod_vars, cons_pc, paths_to_compress,
                   loop_vars, sink_vars, argv, source_log, exit_event,
                   hist_vars>>

InitMain ==
    /\ named_buffers = <<>>
    /\ ready_buffers = <<>>
    /\ lock = "free"
    /\ now = 0
    /\ prod_pc = "next"
    /\ prod_arg = [s3_path |-> <<>>, object_size |-> 0, process_timestamp |-> 0]
    /\ n_events = 0
    /\ cons_pc = "idle"
    /\ paths_to_compress = <<>>
    /\ loop_pc = "wait"
    /\ sleep_time = 1
    /\ slept = <<>>
    /\ empties = 0
    /\ main_pc = "parse"
    /\ exit_status = 0
    /\ input_type \in {"s3", "fs"}
    /\ argv \in {a \in ArgvSet : input_type = "s3" => a.mnt_absolute}
    /\ source_log = <<>>
    /\ exit_event = FALSE
    /\ jobs = <<>>
    /\ appended = <<>>
    /\ returned = <<>>
    /\ cycle = 0

NextMain ==
    \/ MainParse
    \/ MainClients
    \/ MainConstruct

SpecMain == InitMain /\ [][NextMain]_vars

----------------------------------------------------------------------------
(* SpecSource: the generator s3_file_ingestion_listener of                  *)
(* seaweedfs_grpc_client.py, read by the listener thread of main.py.        *)

\* responses the metadata stream delivers
MaxResponses == 3

\* what a response reports: a new file, a new directory, a change of an
\* existing entry (old_entry set), a deletion (new_entry empty)
ResponseKinds == {"new_file", "new_directory", "changed", "deleted"}

\* the positional parameters of S3NotificationMessage.__init__
\* (notification_message.py 26-32)
S3NotificationMessage_params == <<"s3_bucket", "s3_path", "file_size", "fid_list">>

\* the positional arguments of the call at seaweedfs_grpc_client.py 96
S3NotificationMessage_call_args == <<"s3_full_path", "file_size", "fid_list">>

\* a call by position: TypeError unless the counts agree
call_by_position(params, args) ==
    IF Len(args) = Len(params) THEN "" ELSE "TypeError"

\* seaweedfs_grpc_client.py 80-98 for one response: "filtered" by one of the
\* two `continue`, "logged" by the except clause, "yielded" otherwise
response_outcome(kind) ==
    IF kind \in {"deleted", "changed"} THEN "filtered"
    ELSE IF kind = "new_directory" THEN "filtered"
    ELSE IF call_by_position(S3NotificationMessage_params,
                             S3NotificationMessage_call_args) # ""
    THEN "logged"
    ELSE "yielded"

\* a generator whose try statement encloses the for loop
generator_ends_on_error(outcome) == outcome # "logged"

\* the try statement is inside the for loop (lines 79-98): after any outcome
\* of one response the generator reads the next one
generator_continues(outcome) == TRUE

\* one response is received and handled
SourceResponse ==
    /\ prod_pc = "next"
    /\ Len(source_log) < MaxResponses
    /\ \E kind \in ResponseKinds :
          LET outcome == response_outcome(kind) IN
          /\ source_log' = Append(source_log, [kind |-> kind, outcome |-> outcome])
          /\ IF generator_continues(outcome)
             THEN /\ n_events' = IF outcome = "yielded" THEN n_events + 1
                                                        ELSE n_events
                  /\ UNCHANGED <<prod_pc, exit_event>>
             ELSE /\ ListenerStops
                  /\ UNCHANGED n_events
    /\ UNCHANGED <<buffer_vars, now, prod_arg, cons_pc, paths_to_compress,
                   loop_vars, sink_vars, main_vars, hist_vars>>

\* the iteration of SubscribeMetadata (line 79) raises: the exception leaves
\* the generator and reaches main.py 156
StreamRaises ==
    /\ prod_pc = "next"
    /\ source_log' = Append(source_log, [kind |-> "stream", outcome |-> "RpcError"])
    /\ ListenerStops
    /\ UNCHANGED <<buffer_vars, now, prod_arg, n_events, cons_pc,
                   paths_to_compress, loop_vars, sink_vars, main_vars, hist_vars>>

\* the stream ends: the generator returns
StreamEnds ==
    /\ prod_pc = "next"
    /\ source_log' = Append(source_log, [kind |-> "stream", outcome |-> "end"])
    /\ ListenerStops
    /\ UNCHANGED <<buffer_vars, now, prod_arg, n_events, cons_pc,
                   paths_to_compress, loop_vars, sink_vars, main_vars, hist_vars>>

NextSource ==
    \/ SourceResponse
    \/ StreamRaises
    \/ StreamEnds

SpecSource == Init /\ [][NextSource]_vars

----------------------------------------------------------------------------
(* Histories read by the properties *)

Range(seq) == {seq[i] : i \in 1..Len(seq)}

AllNames ==
    BufferNames(named_buffers) \cup {appended[i].name : i \in 1..Len(appended)}
                               \cup {returned[i].name : i \in 1..Len(returned)}

\* the appends that took effect on group k, in order
AppendedTo(k) == SelectSeq(appended, LAMBDA e : e.name = k)

RECURSIVE ReturnedPaths(_, _)
\* the paths of the first n results that belong to group k, in order
ReturnedPaths(k, n) ==
    IF n = 0 THEN <<>>
    ELSE ReturnedPaths(k, n - 1)
           \o (IF returned[n].name = k THEN returned[n].paths ELSE <<>>)

RECURSIVE ReturnedCycles(_, _)
\* for each of those paths, the cycle of the result that returned it
ReturnedCycles(k, n) ==
    IF n = 0 THEN <<>>
    ELSE ReturnedCycles(k, n - 1)
           \o (IF returned[n].name = k
               THEN [j \in 1..Len(returned[n].paths) |-> returned[n].cycle]
               ELSE <<>>)

\* the appends to group k that no result has returned yet
Pending(k) ==
    LET all == AppendedTo(k)
        done == Len(ReturnedPaths(k, Len(returned)))
    IN IF done >= Len(all) THEN <<>> ELSE SubSeq(all, done + 1, Len(all))

RECURSIVE SumSizes(_)
SumSizes(entries) ==
    IF entries = <<>> THEN 0 ELSE Head(entries).size + SumSizes(Tail(entries))

RECURSIVE GroupPaths(_)
\* the paths held by the first n groups
GroupPaths(n) ==
    IF n = 0 THEN <<>> ELSE GroupPaths(n - 1) \o named_buffers[n].path_list

RECURSIVE ResultPaths(_)
\* the paths of the first n results
ResultPaths(n) ==
    IF n = 0 THEN <<>> ELSE ResultPaths(n - 1) \o returned[n].paths

Occurrences(seq, x) == Cardinality({i \in 1..Len(seq) : seq[i] = x})

\* the trigger policy as stated: at least one member, and size or age
\* strictly over its threshold
Eligible(buf, t) ==
    /\ Len(buf.path_list) >= 1
    /\ \/ buf.total_buffer_size > max_buffer_size
       \/ t - buf.first_path_timestamp > min_refresh_period

SomeGroupNonEmpty(bufs) ==
    \E i \in 1..Len(bufs) : bufs[i].first_path_timestamp # None

----------------------------------------------------------------------------
(* Properties *)

\* C1: conservation. In every state each appended path occurs, counted with
\* multiplicity, as often in the groups and the returned results together as
\* it was appended; in a group only of its own key; so no path is returned
\* twice and none disappears.
C1_Conservation ==
    LET held == GroupPaths(Len(named_buffers)) \o ResultPaths(Len(returned))
        given == [i \in 1..Len(appended) |-> appended[i].path]
    IN /\ Len(held) = Len(given)
       /\ \A p \in Range(given) : Occurrences(held, p) = Occurrences(given, p)
       /\ \A i \in 1..Len(named_buffers) :
             \A j \in 1..Len(named_buffers[i].path_list) :
                index_name(named_buffers[i].path_list[j]).name = named_buffers[i].name

C1_Witness ==
    /\ Len(returned) >= 1
    /\ prod_pc = "acquire"
    /\ ready_buffers # <<>>
    /\ \E i \in 1..Len(named_buffers) : named_buffers[i].path_list # <<>>

\* C2: a multi-group drain cycle is one visible unit. While ready_buffers
\* holds keys of a scan no append takes effect (no group gains a path) and an
\* append issued meanwhile stays pending with its arguments; and every path a
\* result returns was appended before the scan of that result's cycle; once
\* the ready queue is empty again the lock is free for the pending append.
C2_NoAppendDuringCycle ==
    ready_buffers # <<>> =>
       /\ appended' = appended
       /\ Len(named_buffers') = Len(named_buffers)
       /\ \A i \in 1..Len(named_buffers) :
             named_buffers'[i].path_list \in {named_buffers[i].path_list, <<>>}
       /\ prod_pc = "acquire" => (prod_pc' = "acquire" /\ prod_arg' = prod_arg)

C2_OnlyInLaterCycle ==
    \A k \in AllNames :
       LET cycles == ReturnedCycles(k, Len(returned))
           entries == AppendedTo(k)
       IN /\ Len(cycles) <= Len(entries)
          /\ \A j \in 1..Len(cycles) : entries[j].cycle < cycles[j]

C2_UnblockedAfterCycle == ready_buffers = <<>> => lock = "free"

\* C2: both parts, in every state and at every step
C2_DrainCycleIsOneUnit ==
    /\ [](C2_OnlyInLaterCycle /\ C2_UnblockedAfterCycle)
    /\ [][C2_NoAppendDuringCycle]_vars

\* a cycle of two keys has returned its first result, an append is blocked
C2_Witness ==
    /\ Len(ready_buffers) >= 1
    /\ lock = "consumer"
    /\ cons_pc = "idle"
    /\ Len(returned) >= 1
    /\ returned[Len(returned)].cycle = cycle
    /\ prod_pc = "acquire"
    /\ index_name(prod_arg.s3_path).raised = ""

\* a step of get_paths_to_compress that pops a key
PopStep == ready_buffers # <<>> /\ ready_buffers' = Tail(ready_buffers)

\* C3: a successful drain returns exactly the members appended to the popped
\* group since its last drain, in append order, with the group's key, and
\* leaves that group empty (no members, size 0, no first-member timestamp).
C3_DrainResult ==
    PopStep =>
       LET k == Head(ready_buffers)
           pend == Pending(k)
           i == IndexOf(named_buffers, k)
       IN /\ paths_to_compress' = << [j \in 1..Len(pend) |-> pend[j].path], k >>
          /\ Len(pend) >= 1
          /\ named_buffers'[i].name = k
          /\ named_buffers'[i].path_list = <<>>
          /\ named_buffers'[i].total_buffer_size = 0
          /\ named_buffers'[i].first_path_timestamp = None

\* C3: every step that pops a key has the result and the emptied group above
C3_DrainReturnsMembersInOrder == [][C3_DrainResult]_vars

\* the second drain of a group returned two different paths
C3_Witness ==
    /\ cons_pc = "idle"
    /\ Len(returned) >= 2
    /\ returned[1].name = returned[Len(returned)].name
    /\ Len(returned[Len(returned)].paths) = 2
    /\ returned[Len(returned)].paths[1] # returned[Len(returned)].paths[2]
    /\ paths_to_compress[1] = returned[Len(returned)].paths
    /\ \A i \in 1..Len(named_buffers) : named_buffers[i].path_list = <<>>

\* C4: a scan started with an empty ready queue enqueues exactly the keys of
\* the groups that have a member and whose size is over max_buffer_size or
\* whose age is over min_refresh_period, both strictly.
C4_ScanResult ==
    (CallDrain /\ ready_buffers = <<>>) =>
       /\ \A i \in 1..Len(named_buffers) :
             (named_buffers[i].name \in Range(ready_buffers'))
                <=> Eligible(named_buffers[i], now)
       /\ Range(ready_buffers') \subseteq BufferNames(named_buffers)

\* C4: every scan step enqueues exactly the eligible groups
C4_TriggerPolicy == [][C4_ScanResult]_vars

\* a scan enqueued a key and left out a group at exactly both thresholds
C4_Witness ==
    /\ cons_pc = "drain_pop"
    /\ ready_buffers # <<>>
    /\ \E i \in 1..Len(named_buffers) :
          /\ named_buffers[i].name \notin Range(ready_buffers)
          /\ named_buffers[i].path_list # <<>>
          /\ named_buffers[i].total_buffer_size = max_buffer_size
          /\ now - named_buffers[i].first_path_timestamp = min_refresh_period

\* C5: append never fails: whatever the path (under the prefix, outside it,
\* or the prefix itself) and the size, the call completes without raising,
\* so the listener thread is never stopped by it.
C5_AppendNeverFails == prod_pc # "stopped"

\* C6: an empty result of get_paths_to_compress is not an error of the
\* submission loop: the loop does not stop (and set the exit event) on it.
C6_EmptyDrainIsNotAnError ==
    (loop_pc = "stopped" /\ paths_to_compress # <<>>) => paths_to_compress[1] # <<>>

\* C7: every non-empty result is turned into one job whose paths are the
\* drained members, in order, inserted before the next drain attempt.
C7_EveryBatchIsEmitted ==
    (cons_pc \in OutsideCalls /\ loop_pc # "handle") =>
       /\ Len(jobs) = Len(returned)
       /\ \A i \in 1..Len(returned) : jobs[i].paths = returned[i].paths

\* C8: group accounting. In every state each group's total_buffer_size is the
\* sum of the sizes appended to it since its last drain, and its
\* first_path_timestamp is the timestamp passed by the first of those
\* appends (none when there is no such append).
C8_GroupAccounting ==
    \A i \in 1..Len(named_buffers) :
       LET pend == Pending(named_buffers[i].name) IN
       /\ named_buffers[i].total_buffer_size = SumSizes(pend)
       /\ named_buffers[i].first_path_timestamp =
             IF pend = <<>> THEN None ELSE pend[1].ts
       /\ Len(named_buffers[i].path_list) = Len(pend)

\* after a drain, a group holds two appends made at different times
C8_Witness ==
    /\ returned # <<>>
    /\ \E i \in 1..Len(named_buffers) :
          LET pend == Pending(named_buffers[i].name) IN
          /\ Len(pend) = 2
          /\ pend[1].ts < pend[2].ts
          /\ pend[1].size > 0
          /\ named_buffers[i].first_path_timestamp = pend[1].ts

\* C9: a get_paths_to_compress call made with an empty ready queue and no
\* eligible group returns the empty result and leaves every group, the ready
\* queue and the lock (free) as they were.
C9_EmptyDrainStep ==
    (/\ CallDrain
     /\ ready_buffers = <<>>
     /\ \A i \in 1..Len(named_buffers) : ~Eligible(named_buffers[i], now)) =>
       /\ paths_to_compress' = <<<<>>, "">>
       /\ named_buffers' = named_buffers
       /\ ready_buffers' = <<>>
       /\ lock = "free"
       /\ lock' = "free"
       /\ cons_pc' = "idle"

\* C9: every empty drain step changes nothing but the returned value
C9_EmptyDrainIdempotent == [][C9_EmptyDrainStep]_vars

\* an empty result has been returned while a group holds members, and the
\* next call will return empty again
C9_Witness ==
    /\ cons_pc = "idle"
    /\ paths_to_compress = <<<<>>, "">>
    /\ ready_buffers = <<>>
    /\ lock = "free"
    /\ SomeGroupNonEmpty(named_buffers)
    /\ \A i \in 1..Len(named_buffers) : ~Eligible(named_buffers[i], now)

\* C10: wait_for_compression_jobs returns only in a state where some group
\* has its first_path_timestamp set; a wake-up that finds every group empty
\* waits again.
C10_Returned == cons_pc = "waited" => SomeGroupNonEmpty(named_buffers)

C10_StaysBlocked ==
    (cons_pc \in {"cv_wait", "cv_woken"} /\ ~SomeGroupNonEmpty(named_buffers'))
       => cons_pc' \in {"cv_wait", "cv_woken"}

\* C10: the postcondition in every state, the blocking at every step
C10_WaitPostcondition == [](C10_Returned) /\ [][C10_StaysBlocked]_vars

\* the consumer was woken while groups exist and all of them are empty
C10_Witness ==
    /\ cons_pc = "cv_woken"
    /\ Len(named_buffers) >= 1
    /\ ~SomeGroupNonEmpty(named_buffers)

----------------------------------------------------------------------------
\* the consumer is inside wait_for_compression_jobs, blocked or woken
C11_InWait == cons_pc \in {"cv_wait", "cv_woken"}

\* C11 (no lost wake-up): whenever the consumer is inside
\* wait_for_compression_jobs, blocked or woken, and some group holds a path
\* (an append has completed), the call eventually returns; and the consumer
\* is never left in the condition's wait set while a group holds a path
C11_NoLostWakeup ==
    /\ [](cons_pc = "cv_wait" => all_buffers_empty(named_buffers))
    /\ (C11_InWait /\ SomeGroupNonEmpty(named_buffers)) ~> (cons_pc = "waited")

\* the consumer was blocked in the wait set when an append completed
C11_Witness ==
    /\ cons_pc = "cv_woken"
    /\ Len(appended) >= 1
    /\ SomeGroupNonEmpty(named_buffers)

----------------------------------------------------------------------------
\* C12 (either loop stopping signals shutdown): in every state a stopped
\* submission loop or listener loop has the exit event set; no step clears
\* the event and no step restarts a stopped loop
C12_StoppedImpliesSet ==
    /\ loop_pc = "stopped" => exit_event
    /\ prod_pc = "stopped" => exit_event

C12_NeverClearedNeverRestarted ==
    /\ exit_event => exit_event'
    /\ loop_pc = "stopped" => loop_pc' = "stopped"
    /\ prod_pc = "stopped" => prod_pc' = "stopped"

\* C12: the flag in every state, its permanence at every step
C12_StopSignalsShutdown ==
    [](C12_StoppedImpliesSet) /\ [][C12_NeverClearedNeverRestarted]_vars

\* both loops have stopped, each for its own reason
C12_Witness ==
    /\ loop_pc = "stopped"
    /\ prod_pc = "stopped"
    /\ exit_event
    /\ Len(appended) >= 1

----------------------------------------------------------------------------
\* C13 (exit status after shutdown): once the polling loop of main has seen
\* the exit event set by a stopped loop and main has returned, the status is
\* not zero
C13_NonZeroExitAfterShutdown ==
    (main_pc = "returned" /\ exit_event) => exit_status # 0

----------------------------------------------------------------------------
\* the sleeps of k failed attempts in a row: 1, 2, 4, ... capped
BackoffSchedule(k) == [j \in 1..k |-> min(2 ^ (j - 1), max_polling_period)]

\* C14 (backoff schedule): the sleeps made since wait_for_compression_jobs
\* last returned are one per empty result handled since then, the k-th of
\* min(2^(k-1), max_polling_period) time units; the history starts again
\* after each return of wait_for_compression_jobs
C14_BackoffSchedule == slept = BackoffSchedule(empties)

----------------------------------------------------------------------------
\* C15 (no grouping prefix configured): main, which passes no grouping
\* prefix, constructs the buffer: it never returns from the except clause
\* of the construction
C15_BufferConstructed == ~(main_pc = "returned" /\ exit_status = -1)

----------------------------------------------------------------------------
\* the outcomes that are errors
C16_Errors == {"logged", "RpcError"}

\* C16 (notification-source errors are fatal), as claimed: every error while
\* the source produces an event is the last thing the source does, stops the
\* listener loop and sets the exit event
C16_SourceErrorsAreFatal ==
    \A i \in 1..Len(source_log) :
        source_log[i].outcome \in C16_Errors
           => i = Len(source_log) /\ prod_pc = "stopped" /\ exit_event

C16_StreamErrorIsFatal ==
    \A i \in 1..Len(source_log) :
        source_log[i].outcome = "RpcError"
           => i = Len(source_log) /\ prod_pc = "stopped" /\ exit_event

C16_ConversionErrorIsSkipped ==
    (/\ Len(source_log') = Len(source_log) + 1
     /\ source_log'[Len(source_log')].outcome = "logged")
       => prod_pc' = "next" /\ exit_event' = exit_event

\* C16 as amended: an error of the stream itself is the last thing the source
\* does, stops the listener loop and sets the exit event; an error while one
\* response is converted is logged, the response is skipped and the source
\* goes on with the listener loop running and the exit event as it was
C16_OnlyStreamErrorsAreFatal ==
    [](C16_StreamErrorIsFatal) /\ [][C16_ConversionErrorIsSkipped]_vars

\* a conversion error was skipped, and later the stream failed
C16_Witness ==
    /\ Len(source_log) >= 2
    /\ source_log[1].outcome = "logged"
    /\ source_log[Len(source_log)].outcome = "RpcError"
    /\ prod_pc = "stopped"

----------------------------------------------------------------------------
\* C17 (ready-queue invariant): every key of ready_buffers occurs in it once
\* and names a group of named_buffers that holds a path, the keys stand in
\* the order of the scan (the order of named_buffers); and the results of one
\* cycle are non-empty, of different groups, in that same order
C17_ReadyQueueInvariant ==
    /\ \A i, j \in 1..Len(ready_buffers) :
          i < j => /\ ready_buffers[i] # ready_buffers[j]
                   /\ IndexOf(named_buffers, ready_buffers[i])
                        < IndexOf(named_buffers, ready_buffers[j])
    /\ \A i \in 1..Len(ready_buffers) :
          /\ ready_buffers[i] \in BufferNames(named_buffers)
          /\ named_buffers[IndexOf(named_buffers, ready_buffers[i])].path_list # <<>>
    /\ \A i, j \in 1..Len(returned) :
          (i < j /\ returned[i].cycle = returned[j].cycle)
             => /\ returned[i].name # returned[j].name
                /\ IndexOf(named_buffers, returned[i].name)
                     < IndexOf(named_buffers, returned[j].name)
    /\ \A i \in 1..Len(returned) : returned[i].paths # <<>>

\* two groups were ready in one scan and both have been returned, in the
\* order of the scan
C17_Witness ==
    /\ Len(returned) = 2
    /\ returned[1].cycle = returned[2].cycle
    /\ ready_buffers = <<>>

----------------------------------------------------------------------------
\* the consumer's next step takes the lock: it is inside
\* wait_for_compression_jobs, or it is outside both methods with
\* ready_buffers empty, where either method starts by acquiring the lock
C18_NextStepAcquires ==
    \/ cons_pc \in {"cv_wait", "cv_woken"}
    \/ cons_pc \in OutsideCalls /\ Len(ready_buffers) = 0

\* a call of wait_for_compression_jobs that finds ready_buffers non-empty
\* returns and leaves the lock as it is
C18_WaitLeavesLock ==
    (cons_pc \in OutsideCalls /\ Len(ready_buffers) > 0 /\ cons_pc' = "waited")
       => lock' = lock

\* C18 (no self-deadlock of the consumer): the consumer never comes to
\* acquire the lock while it holds it, whatever the order of its calls
C18_NoSelfDeadlock ==
    /\ [](C18_NextStepAcquires => lock # "consumer")
    /\ [][C18_WaitLeavesLock]_vars

\* wait_for_compression_jobs was called in the middle of a drain cycle, with
\* the lock held by the consumer, and has returned
C18_Witness ==
    /\ cons_pc = "waited"
    /\ lock = "consumer"
    /\ Len(ready_buffers) > 0
    /\ Len(returned) >= 1

----------------------------------------------------------------------------
----------------------------------------------------------------------------
\* the clock can still pass the age threshold of entry e
C20_CanAge(e) == e.ts + min_refresh_period < MaxTime

\* the k-th append that took effect has been returned by some result
C20_Flushed(k) ==
    /\ Len(appended) >= k
    /\ LET e == appended[k]
           pos == Cardinality({j \in 1..k : appended[j].name = e.name})
       IN Len(ReturnedPaths(e.name, Len(returned))) >= pos

----------------------------------------------------------------------------
\* C21 (lock is not leaked on a fatal consumer error): once the submission
\* loop has stopped, the consumer does not hold the buffer lock, so an append
\* called afterwards can take it
C21_LockNotLeaked == loop_pc = "stopped" => lock # "consumer"

----------------------------------------------------------------------------
\* a step in which a call of get_paths_to_compress returns
C22_DrainReturns == (CallDrain \/ DrainPop) /\ cons_pc' = "idle"

\* the call cleared a group
C22_GroupDrained == named_buffers' # named_buffers

C22_ResultMatchesDrain ==
    C22_DrainReturns => (paths_to_compress'[1] = <<>> <=> ~C22_GroupDrained)

\* C22 (empty result is unambiguous): get_paths_to_compress returns an empty
\* list exactly when the call cleared no group; every result that came from
\* a group, the group "" included, holds at least one path
C22_EmptyResultUnambiguous ==
    /\ [][C22_ResultMatchesDrain]_vars
    /\ [](\A i \in 1..Len(returned) : Len(returned[i].paths) >= 1)

\* the group "" has been drained: the result carries the name of the empty
\* result and a path
C22_Witness ==
    /\ Len(paths_to_compress) = 2
    /\ paths_to_compress[2] = ""
    /\ Len(paths_to_compress[1]) >= 1
    /\ cons_pc = "idle"

====
